---------------------------- MODULE Spec2Model ----------------------------
(***************************************************************************)
(* webshot-cli: bin/webshot.js.  One invocation of the command line tool:  *)
(* module load, commander's parse, the action handler (option resolution,  *)
(* validation, output path), and the browser session of screenshotWebsite. *)
(***************************************************************************)
EXTENDS Integers, Sequences, FiniteSets, TLC

(***************************************************************************)
(* JavaScript values.  A value is a string, a number, NaN or undefined;    *)
(* every value is a record with the same fields so that any two compare.   *)
(***************************************************************************)
Str(s) == [type |-> "string", str |-> s, num |-> 0]
Num(n) == [type |-> "number", str |-> "", num |-> n]
NaN == [type |-> "NaN", str |-> "", num |-> 0]
Undefined == [type |-> "undefined", str |-> "", num |-> 0]

\* !v for the values above: undefined, "", 0 and NaN are falsy.
Falsy(v) ==
    \/ v.type = "undefined"
    \/ v.type = "NaN"
    \/ (v.type = "string" /\ v.str = "")
    \/ (v.type = "number" /\ v.num = 0)

(***************************************************************************)
(* Strings.                                                                *)
(***************************************************************************)
CharAt(s, i) == SubSeq(s, i, i)

\* String.prototype.startsWith
StartsWith(s, p) == Len(s) >= Len(p) /\ SubSeq(s, 1, Len(p)) = p

\* String.prototype.slice(from, to) with 0 <= from <= to (0-based, to exclusive)
Slice(s, from, to) ==
    SubSeq(s, from + 1, IF to > Len(s) THEN Len(s) ELSE to)

Drop(s, n) == SubSeq(s, n + 1, Len(s))

\* 1-based position of the first occurrence of a character of set cs in s
\* at or after position i; Len(s) + 1 when there is none.
RECURSIVE FindAny(_, _, _)
FindAny(s, cs, i) ==
    IF i > Len(s) THEN Len(s) + 1
    ELSE IF CharAt(s, i) \in cs THEN i
    ELSE FindAny(s, cs, i + 1)

\* 1-based position of the last occurrence of character c in s, 0 if none.
RECURSIVE FindLast(_, _, _)
FindLast(s, c, i) ==
    IF i < 1 THEN 0
    ELSE IF CharAt(s, i) = c THEN i
    ELSE FindLast(s, c, i - 1)

\* s.replace(/[cs]/g, by): every character of cs replaced by the string by.
RECURSIVE ReplaceAll(_, _, _)
ReplaceAll(s, cs, by) ==
    IF s = "" THEN ""
    ELSE (IF CharAt(s, 1) \in cs THEN by ELSE CharAt(s, 1))
             \o ReplaceAll(Drop(s, 1), cs, by)

DecDigits == <<"0", "1", "2", "3", "4", "5", "6", "7", "8", "9">>
HexLower == <<"a", "b", "c", "d", "e", "f">>
HexUpper == <<"A", "B", "C", "D", "E", "F">>

\* The value of character c as a digit in the given radix, -1 if it is none.
DigitValue(c, radix) ==
    IF \E i \in 1..10 : DecDigits[i] = c
    THEN (CHOOSE i \in 1..10 : DecDigits[i] = c) - 1
    ELSE IF radix = 16 /\ \E i \in 1..6 : HexLower[i] = c
    THEN 9 + (CHOOSE i \in 1..6 : HexLower[i] = c)
    ELSE IF radix = 16 /\ \E i \in 1..6 : HexUpper[i] = c
    THEN 9 + (CHOOSE i \in 1..6 : HexUpper[i] = c)
    ELSE -1

WhiteSpace == {" ", "\t", "\n", "\r"}

RECURSIVE TrimStart(_)
TrimStart(s) ==
    IF s # "" /\ CharAt(s, 1) \in WhiteSpace THEN TrimStart(Drop(s, 1)) ELSE s

\* The number read from the longest prefix of s made of digits of the radix,
\* continuing from acc; seen tells whether a digit has been read.
RECURSIVE ReadDigits(_, _, _, _)
ReadDigits(s, radix, acc, seen) ==
    IF s = "" \/ DigitValue(CharAt(s, 1), radix) < 0
    THEN [seen |-> seen, value |-> acc]
    ELSE ReadDigits(Drop(s, 1), radix,
                    acc * radix + DigitValue(CharAt(s, 1), radix), TRUE)

\* Number.prototype.toString for an integer.
RECURSIVE NatToString(_)
NatToString(n) ==
    IF n < 10 THEN DecDigits[n + 1]
    ELSE NatToString(n \div 10) \o DecDigits[(n % 10) + 1]

NumberToString(n) == IF n < 0 THEN "-" \o NatToString(-n) ELSE NatToString(n)

\* ToString of a value, as parseInt and template literals apply it.
JsToString(v) ==
    CASE v.type = "string" -> v.str
      [] v.type = "number" -> NumberToString(v.num)
      [] v.type = "NaN" -> "NaN"
      [] v.type = "undefined" -> "undefined"

\* parseInt(v) with no radix argument: leading white space is skipped, a
\* sign is read, a 0x or 0X prefix selects radix 16, the longest prefix of
\* digits is the value, and no digit at all gives NaN.
parseInt(v) ==
    LET s0 == TrimStart(JsToString(v))
        neg == StartsWith(s0, "-")
        s1 == IF StartsWith(s0, "-") \/ StartsWith(s0, "+") THEN Drop(s0, 1) ELSE s0
        hex == StartsWith(s1, "0x") \/ StartsWith(s1, "0X")
        s2 == IF hex THEN Drop(s1, 2) ELSE s1
        r == ReadDigits(s2, IF hex THEN 16 ELSE 10, 0, FALSE)
    IN  IF ~r.seen THEN NaN
        ELSE Num(IF neg THEN -r.value ELSE r.value)

\* a < b and a > b on numbers: any comparison with NaN is false.
JsLess(a, b) == a.type = "number" /\ b.type = "number" /\ a.num < b.num
JsGreater(a, b) == a.type = "number" /\ b.type = "number" /\ a.num > b.num

(***************************************************************************)
(* Module level constants of webshot.js.                                   *)
(***************************************************************************)
\* os.homedir(): the home directory of the user running the tool.
homeDir == "/home/u"

\* path.normalize on the segments of a POSIX path, read left to right: out
\* is the sequence of segments kept so far, abs tells an absolute path.
RECURSIVE NormalizeSegments(_, _, _)
NormalizeSegments(p, out, abs) ==
    IF p = "" THEN out
    ELSE LET cut == FindAny(p, {"/"}, 1)
             seg == SubSeq(p, 1, cut - 1)
             rest == Drop(p, cut)
         IN  IF seg = "" \/ seg = "." THEN NormalizeSegments(rest, out, abs)
             ELSE IF seg = ".."
             THEN IF Len(out) > 0 /\ out[Len(out)] # ".."
                  THEN NormalizeSegments(rest, SubSeq(out, 1, Len(out) - 1), abs)
                  ELSE IF abs THEN NormalizeSegments(rest, out, abs)
                  ELSE NormalizeSegments(rest, Append(out, seg), abs)
             ELSE NormalizeSegments(rest, Append(out, seg), abs)

RECURSIVE JoinSegments(_)
JoinSegments(segs) ==
    IF Len(segs) = 0 THEN ""
    ELSE IF Len(segs) = 1 THEN segs[1]
    ELSE segs[1] \o "/" \o JoinSegments(Tail(segs))

\* path.isAbsolute (POSIX)
pathIsAbsolute(p) == StartsWith(p, "/")

\* path.normalize (POSIX)
pathNormalize(p) ==
    IF p = "" THEN "."
    ELSE LET abs == pathIsAbsolute(p)
             trailing == CharAt(p, Len(p)) = "/"
             body == JoinSegments(NormalizeSegments(p, <<>>, abs))
         IN  IF body = "" THEN (IF abs THEN "/" ELSE IF trailing THEN "./" ELSE ".")
             ELSE (IF abs THEN "/" ELSE "") \o body
                      \o (IF trailing THEN "/" ELSE "")

\* path.join(a, b) (POSIX): the non-empty arguments joined by "/", normalized.
pathJoin(a, b) ==
    IF a = "" /\ b = "" THEN "."
    ELSE IF a = "" THEN pathNormalize(b)
    ELSE IF b = "" THEN pathNormalize(a)
    ELSE pathNormalize(a \o "/" \o b)

desktopDir == pathJoin(homeDir, "Desktop")
outputDir == pathJoin(desktopDir, "Website_Screenshots")

\* The table with a digit of the mobile preset mistyped.
aspectRatiosTableMistyped ==
    [key \in {"16:9", "16:10", "4:3", "1:1", "21:9", "mobile", "tablet", "desktop"} |->
        CASE key = "16:9" -> [width |-> 1920, height |-> 1080]
          [] key = "16:10" -> [width |-> 1920, height |-> 1200]
          [] key = "4:3" -> [width |-> 1440, height |-> 1080]
          [] key = "1:1" -> [width |-> 1080, height |-> 1080]
          [] key = "21:9" -> [width |-> 2560, height |-> 1080]
          [] key = "mobile" -> [width |-> 375, height |-> 677]
          [] key = "tablet" -> [width |-> 768, height |-> 1024]
          [] key = "desktop" -> [width |-> 1920, height |-> 1080]]

\* The aspectRatios table as the module defines it.
aspectRatiosTable ==
    [key \in {"16:9", "16:10", "4:3", "1:1", "21:9", "mobile", "tablet", "desktop"} |->
        CASE key = "16:9" -> [width |-> 1920, height |-> 1080]
          [] key = "16:10" -> [width |-> 1920, height |-> 1200]
          [] key = "4:3" -> [width |-> 1440, height |-> 1080]
          [] key = "1:1" -> [width |-> 1080, height |-> 1080]
          [] key = "21:9" -> [width |-> 2560, height |-> 1080]
          [] key = "mobile" -> [width |-> 375, height |-> 667]
          [] key = "tablet" -> [width |-> 768, height |-> 1024]
          [] key = "desktop" -> [width |-> 1920, height |-> 1080]]

(***************************************************************************)
(* getTimestamp.  A Date is a record of its UTC fields.                    *)
(***************************************************************************)
Pad(n, width) ==
    LET s == NatToString(n)
    IN  IF Len(s) >= width THEN s
        ELSE SubSeq("0000", 1, width - Len(s)) \o s

\* Date.prototype.toISOString: YYYY-MM-DDTHH:mm:ss.sssZ
toISOString(d) ==
    Pad(d.year, 4) \o "-" \o Pad(d.month, 2) \o "-" \o Pad(d.day, 2) \o "T"
        \o Pad(d.hour, 2) \o ":" \o Pad(d.minute, 2) \o ":" \o Pad(d.second, 2)
        \o "." \o Pad(d.ms, 3) \o "Z"

getTimestamp(now) == ReplaceAll(Slice(toISOString(now), 0, 19), {":", "T"}, "-")

(***************************************************************************)
(* normalizeUrl                                                            *)
(***************************************************************************)
\* normalizeUrl testing for https:// only.
normalizeUrlHttpsOnly(url) ==
    IF ~StartsWith(url, "https://")
    THEN "https://" \o url
    ELSE url

normalizeUrl(url) ==
    IF ~StartsWith(url, "http://") /\ ~StartsWith(url, "https://")
    THEN "https://" \o url
    ELSE url

(***************************************************************************)
(* new URL(url).hostname for the http and https URLs normalizeUrl returns: *)
(* the authority is what follows the scheme and its slashes up to the      *)
(* first "/", "\", "?" or "#"; credentials end at the last "@"; a port     *)
(* follows the last ":" and must be made of digits; the host must be       *)
(* non-empty and free of forbidden characters, and is lower-cased.         *)
(* IPv6 literals, numeric IPv4 hosts, percent-escapes and non-ASCII hosts  *)
(* are not among the inputs.                                               *)
(***************************************************************************)
UpperCase == "ABCDEFGHIJKLMNOPQRSTUVWXYZ"
LowerCase == "abcdefghijklmnopqrstuvwxyz"

ToLowerChar(c) ==
    IF \E i \in 1..26 : CharAt(UpperCase, i) = c
    THEN CharAt(LowerCase, CHOOSE i \in 1..26 : CharAt(UpperCase, i) = c)
    ELSE c

RECURSIVE ToLowerCase(_)
ToLowerCase(s) ==
    IF s = "" THEN "" ELSE ToLowerChar(CharAt(s, 1)) \o ToLowerCase(Drop(s, 1))

RECURSIVE SkipSlashes(_)
SkipSlashes(s) ==
    IF s # "" /\ CharAt(s, 1) \in {"/", "\\"} THEN SkipSlashes(Drop(s, 1)) ELSE s

ForbiddenHostChars ==
    {" ", "\t", "\n", "\r", "#", "/", ":", "<", ">", "?", "@", "[", "\\", "]", "^", "|", "%"}

AllDigits(s) == \A i \in 1..Len(s) : DigitValue(CharAt(s, i), 10) >= 0

\* [ok |-> whether new URL(url) returns, hostname |-> its hostname]
URLHostname(url) ==
    LET afterScheme == IF StartsWith(url, "https:") THEN Drop(url, 6)
                       ELSE IF StartsWith(url, "http:") THEN Drop(url, 5)
                       ELSE url
        rest == SkipSlashes(afterScheme)
        authority == SubSeq(rest, 1, FindAny(rest, {"/", "\\", "?", "#"}, 1) - 1)
        at == FindLast(authority, "@", Len(authority))
        hostport == Drop(authority, at)
        colon == FindLast(hostport, ":", Len(hostport))
        host == IF colon = 0 THEN hostport ELSE SubSeq(hostport, 1, colon - 1)
        port == IF colon = 0 THEN "" ELSE Drop(hostport, colon)
        bad == \/ ~(StartsWith(url, "https:") \/ StartsWith(url, "http:"))
               \/ host = ""
               \/ \E i \in 1..Len(host) : CharAt(host, i) \in ForbiddenHostChars
               \/ ~AllDigits(port)
               \/ (port # "" /\ parseInt(Str(port)).num > 65535)
    IN  IF bad THEN [ok |-> FALSE, hostname |-> ""]
        ELSE [ok |-> TRUE, hostname |-> ToLowerCase(host)]

\* getSafeFilename without the removal of a leading "www.".
getSafeFilenameKeepsWww(url, now) ==
    LET urlObj == URLHostname(url)
        timestamp == getTimestamp(now)
    IN  IF urlObj.ok
        THEN urlObj.hostname \o "_" \o timestamp \o ".png"
        ELSE "screenshot_" \o timestamp \o ".png"

\* getSafeFilename whose catch block composes the name the try block does.
getSafeFilenameNoFallback(url, now) ==
    LET urlObj == URLHostname(url)
        domain == IF StartsWith(urlObj.hostname, "www.")
                  THEN Drop(urlObj.hostname, 4)
                  ELSE urlObj.hostname
        timestamp == getTimestamp(now)
    IN  domain \o "_" \o timestamp \o ".png"

(***************************************************************************)
(* getSafeFilename, with the clock reading getTimestamp takes.             *)
(***************************************************************************)
getSafeFilename(url, now) ==
    LET urlObj == URLHostname(url)
        domain == IF StartsWith(urlObj.hostname, "www.")
                  THEN Drop(urlObj.hostname, 4)
                  ELSE urlObj.hostname
        timestamp == getTimestamp(now)
    IN  IF urlObj.ok
        THEN domain \o "_" \o timestamp \o ".png"
        ELSE "screenshot_" \o timestamp \o ".png"

(***************************************************************************)
(* Property lookup aspectRatios[key] on the plain object: an own key gives *)
(* its preset; a name inherited from Object.prototype gives a truthy value *)
(* that has neither width nor height; any other key gives undefined.       *)
(***************************************************************************)
ObjectPrototypeKeys ==
    {"constructor", "toString", "valueOf", "hasOwnProperty", "isPrototypeOf",
     "propertyIsEnumerable", "toLocaleString", "__proto__"}

LookupPreset(table, key) ==
    IF key.type = "string" /\ key.str \in DOMAIN table
    THEN [found |-> TRUE, width |-> Num(table[key.str].width),
          height |-> Num(table[key.str].height)]
    ELSE IF key.type = "string" /\ key.str \in ObjectPrototypeKeys
    THEN [found |-> TRUE, width |-> Undefined, height |-> Undefined]
    ELSE [found |-> FALSE, width |-> Undefined, height |-> Undefined]

\* const validFormats = ['png', 'jpeg']
validFormats == {"png", "jpeg"}

(***************************************************************************)
(* The command line: the values the user passes; Undefined is an option    *)
(* that is not passed.                                                     *)
(***************************************************************************)
Urls == {"example.com", "http://x.com", "https://www.example.com",
         "WWW.www.a.io", "a b"}
Widths == {Undefined, Str(""), Str("800")}
Heights == {Undefined, Str("600")}
Ratios == {Undefined, Str("mobile"), Str("16:9"), Str("4:3"), Str("1:1"),
           Str("21:9"), Str("tablet"), Str("desktop"), Str("bogus"),
           Str("constructor")}
Delays == {Undefined, Str("0")}
Outputs == {Undefined, Str("shot.jpg"), Str("/tmp/a.png")}
Formats == {Undefined, Str("jpeg"), Str("gif")}
Qualities == {Undefined, Str("100"), Str("101"), Str("150"), Str("0"), Str("abc")}
Scales == {Undefined, Str("2")}
Headless == {TRUE}

Argv ==
    [url : Urls, width : Widths, height : Heights, ratio : Ratios,
     delay : Delays, output : Outputs, format : Formats, quality : Qualities,
     headless : Headless, scale : Scales]

\* The clock readings getTimestamp may take.
Clock ==
    {[year |-> 2025, month |-> 7, day |-> 7, hour |-> 16, minute |-> 24,
      second |-> 30, ms |-> 120],
     [year |-> 2026, month |-> 11, day |-> 1, hour |-> 9, minute |-> 5,
      second |-> 7, ms |-> 0]}

\* What is at the output path once the engine has handled the screenshot
\* call: no file (-1), an empty file, or a file of some bytes.
FileSizes == {-1, 0, 2048}

\* An option's value after commander has applied the declared default.
WithDefault(value, default) == IF value.type = "undefined" THEN default ELSE value

\* The options object commander hands to the action.
ParsedOptions(argv) ==
    [width |-> argv.width,
     height |-> argv.height,
     ratio |-> WithDefault(argv.ratio, Str("16:10")),
     delay |-> WithDefault(argv.delay, Str("3000")),
     output |-> argv.output,
     format |-> WithDefault(argv.format, Str("png")),
     quality |-> WithDefault(argv.quality, Str("90")),
     headless |-> argv.headless]

NoOptions ==
    [width |-> Undefined, height |-> Undefined, ratio |-> Undefined,
     delay |-> Undefined, output |-> Undefined, format |-> Undefined,
     quality |-> Undefined, headless |-> TRUE]

NoViewport ==
    [set |-> FALSE, width |-> Undefined, height |-> Undefined,
     deviceScaleFactor |-> 0]

NoScreenshotOptions ==
    [path |-> "", fullPage |-> FALSE, type |-> Undefined, quality |-> Undefined]

(***************************************************************************)
(* State.                                                                  *)
(*   pc             where the invocation stands                            *)
(*   dirExists      whether outputDir exists on disk                       *)
(*   mkdirCalls     calls of fs.mkdirSync so far                           *)
(*   aspectRatios   the preset table                                       *)
(*   argv           the command line as the user gave it                   *)
(*   options        commander's options object                             *)
(*   normalizedUrl, width, height, output, quality, delay                  *)
(*                  the action's locals, handed to screenshotWebsite       *)
(*   launchCalls .. screenshotCalls, closeCalls                            *)
(*                  calls made to the engine so far                        *)
(*   browser        "none", "open", or "closed" once close() has settled   *)
(*   viewport, userAgentSet, settled, screenshotOptions                    *)
(*                  what the page was asked to do                          *)
(*   timerMs        the delay of the timer the session started, -1 when    *)
(*                  it started none                                        *)
(*   fileSize       size of the file at output, -1 when there is none      *)
(*   sessionError   the error in flight inside screenshotWebsite           *)
(*   sessionResult  "none", "returned" or "thrown"                         *)
(*   closeRaised    whether browser.close() rejected                       *)
(*   successPrinted whether the saved path and size were printed           *)
(*   failure        the error the invocation ended with                    *)
(*   exitCode       the process exit status, -1 while running              *)
(***************************************************************************)
VARIABLES pc, dirExists, mkdirCalls, aspectRatios, argv, options,
          normalizedUrl, width, height, output, quality, delay,
          launchCalls, newPageCalls, gotoCalls, screenshotCalls, closeCalls,
          browser, viewport, userAgentSet, settled, timerMs,
          screenshotOptions, fileSize, sessionError, sessionResult,
          closeRaised, successPrinted, failure, exitCode

dirVars == <<dirExists, mkdirCalls>>
inputVars == <<argv, options>>
localVars == <<normalizedUrl, width, height, output, quality, delay>>
callVars == <<launchCalls, newPageCalls, gotoCalls, screenshotCalls, closeCalls>>
pageVars == <<viewport, userAgentSet, settled, timerMs, screenshotOptions>>
outcomeVars ==
    <<sessionError, sessionResult, closeRaised, successPrinted, failure, exitCode>>

vars == <<pc, dirVars, aspectRatios, inputVars, localVars, callVars,
          browser, pageVars, fileSize, outcomeVars>>

NoArgv ==
    [url |-> "", width |-> Undefined, height |-> Undefined, ratio |-> Undefined,
     delay |-> Undefined, output |-> Undefined, format |-> Undefined,
     quality |-> Undefined, headless |-> TRUE, scale |-> Undefined]

Init ==
    /\ pc = "load"
    /\ dirExists \in BOOLEAN
    /\ mkdirCalls = 0
    /\ aspectRatios = aspectRatiosTable
    /\ argv = NoArgv
    /\ options = NoOptions
    /\ normalizedUrl = ""
    /\ width = Undefined
    /\ height = Undefined
    /\ output = ""
    /\ quality = Undefined
    /\ delay = Undefined
    /\ launchCalls = 0
    /\ newPageCalls = 0
    /\ gotoCalls = 0
    /\ screenshotCalls = 0
    /\ closeCalls = 0
    /\ browser = "none"
    /\ viewport = NoViewport
    /\ userAgentSet = FALSE
    /\ settled = FALSE
    /\ timerMs = -1
    /\ screenshotOptions = NoScreenshotOptions
    /\ fileSize = -1
    /\ sessionError = "none"
    /\ sessionResult = "none"
    /\ closeRaised = FALSE
    /\ successPrinted = FALSE
    /\ failure = "none"
    /\ exitCode = -1

\* The exit status node gives a process ended by an uncaught exception.
UncaughtStatus == 1

\* The exit status commander gives a command line it rejects.
CommanderErrorStatus == 1

\* process.exit(code), or the process ending by itself.
Exit(code, kind) ==
    /\ pc' = "exited"
    /\ exitCode' = code
    /\ failure' = kind

\* Module load without the creation of the output directory.
LoadModuleNoMkdir ==
    /\ pc = "load"
    /\ pc' = "parse"
    /\ UNCHANGED <<dirVars, aspectRatios, inputVars, localVars, callVars,
                   browser, pageVars, fileSize, outcomeVars>>

(***************************************************************************)
(* Module load: the output directory is created when it is missing.  An    *)
(* exception of mkdirSync is uncaught and ends the process with status 1.  *)
(***************************************************************************)
LoadModule ==
    /\ pc = "load"
    /\ \/ /\ dirExists
          /\ pc' = "parse"
          /\ UNCHANGED <<dirExists, mkdirCalls, failure, exitCode>>
       \/ /\ ~dirExists
          /\ mkdirCalls' = mkdirCalls + 1
          /\ dirExists' = TRUE
          /\ pc' = "parse"
          /\ UNCHANGED <<failure, exitCode>>
       \/ /\ ~dirExists
          /\ mkdirCalls' = mkdirCalls + 1
          /\ Exit(UncaughtStatus, "MkdirFailed")
          /\ UNCHANGED dirExists
    /\ UNCHANGED <<aspectRatios, inputVars, localVars, callVars, browser,
                   pageVars, fileSize, sessionError, sessionResult,
                   closeRaised, successPrinted>>

(***************************************************************************)
(* program.parse(): the declared options take their defaults.  The program *)
(* declares no scale option, and commander ends the process with status 1  *)
(* on an option it does not know.                                          *)
(***************************************************************************)
ProgramParse ==
    /\ pc = "parse"
    /\ \E a \in Argv :
          /\ argv' = a
          /\ IF a.scale.type # "undefined"
             THEN /\ Exit(CommanderErrorStatus, "UnknownOption")
                  /\ UNCHANGED options
             ELSE /\ options' = ParsedOptions(a)
                  /\ pc' = "action"
                  /\ UNCHANGED <<failure, exitCode>>
    /\ UNCHANGED <<dirVars, aspectRatios, localVars, callVars, browser,
                   pageVars, fileSize, sessionError, sessionResult,
                   closeRaised, successPrinted>>

(***************************************************************************)
(* The action handler up to its call of screenshotWebsite.                 *)
(***************************************************************************)
\* Determine dimensions: explicit width and height when both are truthy,
\* the preset named by ratio otherwise.
ResolveDimensions(opts, table) ==
    IF Falsy(opts.width) \/ Falsy(opts.height)
    THEN LET preset == LookupPreset(table, opts.ratio)
         IN  [ok |-> preset.found, width |-> preset.width, height |-> preset.height]
    ELSE [ok |-> TRUE, width |-> opts.width, height |-> opts.height]

\* Determine output path, with an explicit output taken as given.
ResolveOutputAsGiven(opts, url, now) ==
    IF ~Falsy(opts.output)
    THEN opts.output.str
    ELSE pathJoin(outputDir, getSafeFilename(url, now))

\* Determine output path.
ResolveOutput(opts, url, now) ==
    IF ~Falsy(opts.output)
    THEN IF pathIsAbsolute(opts.output.str)
         THEN opts.output.str
         ELSE pathJoin(outputDir, opts.output.str)
    ELSE pathJoin(outputDir, getSafeFilename(url, now))

\* validFormats.includes(options.format)
FormatValid(format) == format.type = "string" /\ format.str \in validFormats

\* The quality check without its upper bound.
QualityRejectedLowOnly(format, q) ==
    /\ format = Str("jpeg")
    /\ JsLess(q, Num(1))

\* options.format === 'jpeg' && (quality < 1 || quality > 100)
QualityRejected(format, q) ==
    /\ format = Str("jpeg")
    /\ (JsLess(q, Num(1)) \/ JsGreater(q, Num(100)))

\* A catch block that reports the error and lets the process end normally.
FailureStatusSwallowed == 1 - 1

\* The exit status the action gives a validation failure or a caught error.
FailureStatus == 1

Action ==
    /\ pc = "action"
    /\ \E now \in Clock :
          LET dims == ResolveDimensions(options, aspectRatios)
              q == parseInt(options.quality)
          IN  /\ normalizedUrl' = normalizeUrl(argv.url)
              /\ IF ~dims.ok
                 THEN /\ Exit(FailureStatus, "InvalidPreset")
                      /\ UNCHANGED <<width, height, output, quality, delay,
                                     launchCalls>>
                 ELSE /\ width' = dims.width
                      /\ height' = dims.height
                      /\ output' = ResolveOutput(options, normalizedUrl', now)
                      /\ IF ~FormatValid(options.format)
                         THEN /\ Exit(FailureStatus, "InvalidFormat")
                              /\ UNCHANGED <<quality, delay, launchCalls>>
                         ELSE /\ quality' = q
                              /\ IF QualityRejected(options.format, q)
                                 THEN /\ Exit(FailureStatus, "InvalidQuality")
                                      /\ UNCHANGED <<delay, launchCalls>>
                                 ELSE /\ delay' = parseInt(options.delay)
                                      /\ launchCalls' = launchCalls + 1
                                      /\ pc' = "launching"
                                      /\ UNCHANGED <<failure, exitCode>>
    /\ UNCHANGED <<dirVars, aspectRatios, inputVars, newPageCalls, gotoCalls,
                   screenshotCalls, closeCalls, browser, pageVars, fileSize,
                   sessionError, sessionResult, closeRaised, successPrinted>>

(***************************************************************************)
(* screenshotWebsite.  Each action is the continuation that runs when the  *)
(* awaited engine call settles; the engine decides whether it resolves.    *)
(***************************************************************************)
\* Finally without the finally block: close() is called at the end of the
\* try block only, and an error leaves screenshotWebsite at once.
FinallyOnlyAfterSuccess(err) ==
    IF err = "none"
    THEN /\ sessionError' = err
         /\ closeCalls' = closeCalls + 1
         /\ pc' = "closing"
         /\ UNCHANGED <<sessionResult, browser>>
    ELSE /\ sessionError' = err
         /\ sessionResult' = "thrown"
         /\ pc' = "sessionDone"
         /\ UNCHANGED <<closeCalls, browser>>

\* Finally with a second close() in the catch block.
FinallyAndCatchClose(err) ==
    /\ sessionError' = err
    /\ closeCalls' = closeCalls + (IF err = "none" THEN 1 ELSE 2)
    /\ pc' = "closing"
    /\ UNCHANGED <<sessionResult, browser>>

\* catch: the error is logged and rethrown; finally: browser.close() is
\* called and awaited, with the error (or none) pending.
Finally(err) ==
    /\ sessionError' = err
    /\ closeCalls' = closeCalls + 1
    /\ pc' = "closing"
    /\ UNCHANGED <<sessionResult, browser>>

\* puppeteer.launch settles.  It is awaited outside the try block.
LaunchSettle ==
    /\ pc = "launching"
    /\ \/ /\ browser' = "open"
          /\ newPageCalls' = newPageCalls + 1
          /\ pc' = "newPage"
          /\ UNCHANGED <<sessionError, sessionResult>>
       \/ /\ sessionError' = "LaunchFailed"
          /\ sessionResult' = "thrown"
          /\ pc' = "sessionDone"
          /\ UNCHANGED <<browser, newPageCalls>>
    /\ UNCHANGED <<dirVars, aspectRatios, inputVars, localVars, launchCalls,
                   gotoCalls, screenshotCalls, closeCalls, pageVars, fileSize,
                   closeRaised, successPrinted, failure, exitCode>>

\* browser.newPage settles; page.setViewport is called next.
NewPageSettle ==
    /\ pc = "newPage"
    /\ \/ /\ pc' = "setViewport"
          /\ UNCHANGED <<sessionError, sessionResult, closeCalls, browser>>
       \/ Finally("ConfigureFailed")
    /\ UNCHANGED <<dirVars, aspectRatios, inputVars, localVars, launchCalls,
                   newPageCalls, gotoCalls, screenshotCalls, pageVars, fileSize,
                   closeRaised, successPrinted, failure, exitCode>>

\* The argument of page.setViewport.
ViewportFor(w, h) ==
    [set |-> TRUE, width |-> parseInt(w), height |-> parseInt(h),
     deviceScaleFactor |-> 1]

\* page.setViewport settles; page.setUserAgent is called next.
SetViewportSettle ==
    /\ pc = "setViewport"
    /\ \/ /\ viewport' = ViewportFor(width, height)
          /\ pc' = "setUserAgent"
          /\ UNCHANGED <<sessionError, sessionResult, closeCalls, browser>>
       \/ /\ Finally("ConfigureFailed")
          /\ UNCHANGED viewport
    /\ UNCHANGED <<dirVars, aspectRatios, inputVars, localVars, launchCalls,
                   newPageCalls, gotoCalls, screenshotCalls, userAgentSet,
                   settled, timerMs, screenshotOptions, fileSize, closeRaised,
                   successPrinted, failure, exitCode>>

\* page.setUserAgent settles; page.goto is called next.
SetUserAgentSettle ==
    /\ pc = "setUserAgent"
    /\ \/ /\ userAgentSet' = TRUE
          /\ gotoCalls' = gotoCalls + 1
          /\ pc' = "goto"
          /\ UNCHANGED <<sessionError, sessionResult, closeCalls, browser>>
       \/ /\ Finally("ConfigureFailed")
          /\ UNCHANGED <<userAgentSet, gotoCalls>>
    /\ UNCHANGED <<dirVars, aspectRatios, inputVars, localVars, launchCalls,
                   newPageCalls, screenshotCalls, viewport, settled, timerMs,
                   screenshotOptions, fileSize, closeRaised, successPrinted,
                   failure, exitCode>>

\* The argument of page.screenshot with the quality passed for every format.
ScreenshotOptionsForAlwaysQuality(out, format, q) ==
    IF format = Str("jpeg")
    THEN [path |-> out, fullPage |-> FALSE, type |-> Str("jpeg"), quality |-> q]
    ELSE [path |-> out, fullPage |-> FALSE, type |-> Undefined, quality |-> q]

\* The argument of page.screenshot.
ScreenshotOptionsFor(out, format, q) ==
    IF format = Str("jpeg")
    THEN [path |-> out, fullPage |-> FALSE, type |-> Str("jpeg"), quality |-> q]
    ELSE [path |-> out, fullPage |-> FALSE, type |-> Undefined,
          quality |-> Undefined]

\* page.screenshot(screenshotOptions) is called.
CallScreenshot ==
    /\ screenshotOptions' = ScreenshotOptionsFor(output, options.format, quality)
    /\ screenshotCalls' = screenshotCalls + 1
    /\ pc' = "screenshot"

\* page.goto settles, and a rejected navigation is tried once more.
GotoSettleWithRetry ==
    /\ pc = "goto"
    /\ \/ /\ IF JsGreater(delay, Num(0))
             THEN /\ timerMs' = delay.num
                  /\ pc' = "settle"
                  /\ UNCHANGED <<screenshotOptions, screenshotCalls>>
             ELSE /\ CallScreenshot
                  /\ UNCHANGED timerMs
          /\ UNCHANGED <<sessionError, sessionResult, closeCalls, browser,
                         gotoCalls>>
       \/ /\ IF gotoCalls < 2
             THEN /\ gotoCalls' = gotoCalls + 1
                  /\ UNCHANGED <<pc, sessionError, sessionResult, closeCalls,
                                 browser>>
             ELSE /\ Finally("NavigationFailed")
                  /\ UNCHANGED gotoCalls
          /\ UNCHANGED <<screenshotOptions, screenshotCalls, timerMs>>
    /\ UNCHANGED <<dirVars, aspectRatios, inputVars, localVars, launchCalls,
                   newPageCalls, viewport, userAgentSet, settled,
                   fileSize, closeRaised, successPrinted, failure, exitCode>>

\* page.goto settles, and the delay timer is started but not awaited.
GotoSettleNoAwait ==
    /\ pc = "goto"
    /\ \/ /\ CallScreenshot
          /\ timerMs' = IF JsGreater(delay, Num(0)) THEN delay.num ELSE timerMs
          /\ UNCHANGED <<sessionError, sessionResult, closeCalls, browser>>
       \/ /\ Finally("NavigationFailed")
          /\ UNCHANGED <<screenshotOptions, screenshotCalls, timerMs>>
    /\ UNCHANGED <<dirVars, aspectRatios, inputVars, localVars, launchCalls,
                   newPageCalls, gotoCalls, viewport, userAgentSet, settled,
                   fileSize, closeRaised, successPrinted, failure, exitCode>>

\* page.goto settles; the delay timer is started when delay > 0, and
\* page.screenshot is called at once otherwise.
GotoSettle ==
    /\ pc = "goto"
    /\ \/ /\ IF JsGreater(delay, Num(0))
             THEN /\ timerMs' = delay.num
                  /\ pc' = "settle"
                  /\ UNCHANGED <<screenshotOptions, screenshotCalls>>
             ELSE /\ CallScreenshot
                  /\ UNCHANGED timerMs
          /\ UNCHANGED <<sessionError, sessionResult, closeCalls, browser>>
       \/ /\ Finally("NavigationFailed")
          /\ UNCHANGED <<screenshotOptions, screenshotCalls, timerMs>>
    /\ UNCHANGED <<dirVars, aspectRatios, inputVars, localVars, launchCalls,
                   newPageCalls, gotoCalls, viewport, userAgentSet, settled,
                   fileSize, closeRaised, successPrinted, failure, exitCode>>

\* The delay timer fires; page.screenshot is called next.
SettleDone ==
    /\ pc = "settle"
    /\ settled' = TRUE
    /\ CallScreenshot
    /\ UNCHANGED <<dirVars, aspectRatios, inputVars, localVars, launchCalls,
                   newPageCalls, gotoCalls, closeCalls, browser, viewport,
                   userAgentSet, timerMs, fileSize, outcomeVars>>

\* page.screenshot settles, leaving some file state at the output path.
\* When it resolves, fs.statSync reads the size (and throws when there is
\* no file) and the saved path and size are printed.
ScreenshotSettle ==
    /\ pc = "screenshot"
    /\ \E size \in FileSizes :
          /\ fileSize' = size
          /\ \/ /\ IF size < 0
                   THEN /\ Finally("PersistFailed")
                        /\ UNCHANGED successPrinted
                   ELSE /\ successPrinted' = TRUE
                        /\ Finally("none")
             \/ /\ Finally("CaptureFailed")
                /\ UNCHANGED successPrinted
    /\ UNCHANGED <<dirVars, aspectRatios, inputVars, localVars, launchCalls,
                   newPageCalls, gotoCalls, screenshotCalls, pageVars,
                   closeRaised, failure, exitCode>>

\* browser.close() settles, with its own error caught and dropped.
CloseSettleSwallowed ==
    /\ pc = "closing"
    /\ browser' = "closed"
    /\ sessionResult' = IF sessionError = "none" THEN "returned" ELSE "thrown"
    /\ closeRaised' \in BOOLEAN
    /\ pc' = "sessionDone"
    /\ UNCHANGED <<dirVars, aspectRatios, inputVars, localVars, callVars,
                   pageVars, fileSize, sessionError, successPrinted, failure,
                   exitCode>>

\* browser.close() settles and screenshotWebsite returns or throws: an
\* error of close replaces the pending one.
CloseSettle ==
    /\ pc = "closing"
    /\ browser' = "closed"
    /\ \/ /\ sessionResult' = IF sessionError = "none" THEN "returned" ELSE "thrown"
          /\ UNCHANGED <<sessionError, closeRaised>>
       \/ /\ closeRaised' = TRUE
          /\ sessionError' = "CloseFailed"
          /\ sessionResult' = "thrown"
    /\ pc' = "sessionDone"
    /\ UNCHANGED <<dirVars, aspectRatios, inputVars, localVars, callVars,
                   pageVars, fileSize, successPrinted, failure, exitCode>>

\* The exit status of a process whose action returned normally.
SuccessStatus == 0

\* The action resumes after await screenshotWebsite(...): it returns, and
\* the process ends, or its catch block reports the error and exits.
ActionResume ==
    /\ pc = "sessionDone"
    /\ IF sessionResult = "returned"
       THEN Exit(SuccessStatus, "none")
       ELSE Exit(FailureStatus, sessionError)
    /\ UNCHANGED <<dirVars, aspectRatios, inputVars, localVars, callVars,
                   browser, pageVars, fileSize, sessionError, sessionResult,
                   closeRaised, successPrinted>>

Next ==
    \/ LoadModule
    \/ ProgramParse
    \/ Action
    \/ LaunchSettle
    \/ NewPageSettle
    \/ SetViewportSettle
    \/ SetUserAgentSettle
    \/ GotoSettle
    \/ SettleDone
    \/ ScreenshotSettle
    \/ CloseSettle
    \/ ActionResume

Spec == Init /\ [][Next]_vars

(***************************************************************************)
(* Properties.                                                             *)
(***************************************************************************)
\* The action handler has run (the invocation was not ended at module load
\* or by commander).
ActionRan ==
    /\ pc \notin {"load", "parse", "action"}
    /\ failure \notin {"MkdirFailed", "UnknownOption"}

\* screenshotWebsite has returned or thrown.
SessionLeft == sessionResult # "none"

\* The session ended because page.goto rejected: it was called, and neither
\* the delay timer nor page.screenshot followed.
NavigationFailed ==
    SessionLeft /\ gotoCalls = 1 /\ screenshotCalls = 0 /\ ~settled

\* The session ended because puppeteer.launch rejected.
LaunchFailed == SessionLeft /\ launchCalls = 1 /\ newPageCalls = 0

\* C1: whichever step after the launch fails (open page, set viewport, set
\* user agent, navigate, capture, stat), once screenshotWebsite has returned
\* or thrown, the browser it launched has been closed: close() was called on
\* it and has settled.
C1_BrowserClosedWhenSessionLeft ==
    (SessionLeft /\ newPageCalls > 0) => (browser = "closed" /\ closeCalls >= 1)

C1_Witness ==
    /\ SessionLeft
    /\ sessionError = "PersistFailed"
    /\ browser = "closed"

\* C2 as stated: after a navigation failure or a launch failure the browser
\* has been closed exactly once when the invocation exits.
C2_ClosedExactlyOnce_Original ==
    (pc = "exited" /\ (NavigationFailed \/ LaunchFailed)) => closeCalls = 1

\* C2 amended: a navigation failure ends with close() called exactly once;
\* a launch failure yields no browser, and close() is never called.
C2_ClosedOnceOrNeverLaunched ==
    pc = "exited" =>
        /\ NavigationFailed => (closeCalls = 1 /\ browser = "closed")
        /\ LaunchFailed => (closeCalls = 0 /\ browser = "none")

C2_Witness ==
    /\ pc = "exited"
    /\ NavigationFailed
    /\ failure = "NavigationFailed"
    /\ closeCalls = 1

\* C3: a run that reports InvalidPreset, InvalidFormat or InvalidQuality has
\* exited without the engine ever being asked to launch or to navigate; and
\* a run given format jpeg and quality 150 never launches nor navigates and,
\* once the action has run, has exited with a validation failure.
ValidationFailures == {"InvalidPreset", "InvalidFormat", "InvalidQuality"}

C3_ValidationBeforeBrowser ==
    /\ failure \in ValidationFailures =>
           /\ pc = "exited"
           /\ launchCalls = 0
           /\ gotoCalls = 0
           /\ browser = "none"
    /\ (argv.format = Str("jpeg") /\ argv.quality = Str("150")) =>
           /\ launchCalls = 0
           /\ gotoCalls = 0
           /\ ActionRan => (pc = "exited" /\ failure \in ValidationFailures)

C3_Witness ==
    /\ pc = "exited"
    /\ failure = "InvalidQuality"
    /\ argv.format = Str("jpeg")
    /\ argv.quality = Str("150")
    /\ launchCalls = 0

\* The README's list of aspect ratio presets.
ReadmePresets ==
    [key \in {"16:10", "16:9", "4:3", "1:1", "21:9", "mobile", "tablet", "desktop"} |->
        CASE key = "16:10" -> <<1920, 1200>>
          [] key = "16:9" -> <<1920, 1080>>
          [] key = "4:3" -> <<1440, 1080>>
          [] key = "1:1" -> <<1080, 1080>>
          [] key = "21:9" -> <<2560, 1080>>
          [] key = "mobile" -> <<375, 667>>
          [] key = "tablet" -> <<768, 1024>>
          [] key = "desktop" -> <<1920, 1080>>]

\* The scale factor the user asked for; 1 when --scale is not passed.
RequestedScale ==
    IF argv.scale.type = "undefined" THEN 1 ELSE parseInt(argv.scale).num

\* A dimension multiplied by a scale factor.
Scaled(v, s) == IF v.type = "number" THEN Num(v.num * s) ELSE v

\* C4 as stated: every scale factor is accepted, and the viewport the
\* session configures is the resolved base width and height, each
\* multiplied by the scale factor.
C4_ViewportIsBaseTimesScale ==
    /\ failure # "UnknownOption"
    /\ viewport.set =>
           /\ viewport.width = Scaled(parseInt(width), RequestedScale)
           /\ viewport.height = Scaled(parseInt(height), RequestedScale)

\* C5: the preset table always equals the documented one, and for every
\* documented key, a run given that key and neither width nor height hands
\* the documented pair to the session, which configures it as the viewport.
C5_PresetYieldsDocumentedPair ==
    /\ DOMAIN aspectRatios = DOMAIN ReadmePresets
    /\ \A key \in DOMAIN ReadmePresets :
           <<aspectRatios[key].width, aspectRatios[key].height>> = ReadmePresets[key]
    /\ (/\ ActionRan
        /\ argv.width = Undefined
        /\ argv.height = Undefined
        /\ options.ratio.str \in DOMAIN ReadmePresets) =>
           /\ width = Num(ReadmePresets[options.ratio.str][1])
           /\ height = Num(ReadmePresets[options.ratio.str][2])
           /\ viewport.set =>
                  /\ viewport.width = Num(ReadmePresets[options.ratio.str][1])
                  /\ viewport.height = Num(ReadmePresets[options.ratio.str][2])

C5_Witness ==
    /\ ActionRan
    /\ argv.width = Undefined
    /\ argv.height = Undefined
    /\ options.ratio = Str("mobile")
    /\ viewport.set
    /\ viewport.width = Num(375)
    /\ viewport.height = Num(667)

\* The quality the user gave is the numeral of an integer in 1..100.
QualityWithinRange(q) ==
    q.type = "string" /\ \E n \in 1..100 : q.str = NatToString(n)

\* C6 as stated: with format jpeg, a run whose quality is outside 1..100
\* (and whose dimensions resolved) ends at validation with InvalidQuality;
\* with format png no run ends with InvalidQuality.
C6_JpegQualityOutsideRangeFails ==
    /\ (/\ ActionRan
        /\ options.format = Str("jpeg")
        /\ ~QualityWithinRange(options.quality)
        /\ failure # "InvalidPreset") =>
           (pc = "exited" /\ failure = "InvalidQuality")
    /\ (ActionRan /\ options.format = Str("png")) => failure # "InvalidQuality"

\* C7 as stated: the exit status is 0 when the capture succeeded (every
\* step through persist, so that the saved path and size were printed) and
\* non-zero when the invocation ended with a failure.
C7_ExitStatus_Original ==
    pc = "exited" =>
        /\ successPrinted => exitCode = 0
        /\ failure # "none" => exitCode # 0

\* C7 amended: the exit status is 0 when the capture succeeded and the
\* browser close that follows did not raise; it is non-zero on every
\* failure, a raising close included; status 0 is given to no other run.
C7_ExitStatus ==
    pc = "exited" =>
        /\ (successPrinted /\ sessionError # "CloseFailed") => exitCode = 0
        /\ failure # "none" => exitCode # 0
        /\ exitCode = 0 => (successPrinted /\ failure = "none")
        /\ exitCode \in {0, 1}

C7_Witness ==
    /\ pc = "exited"
    /\ failure = "NavigationFailed"
    /\ exitCode = 1

\* A width or height the user supplied: the option was passed with a
\* non-empty value.
Supplied(v) == v.type = "string" /\ v.str # ""

\* C8 as stated: with width and height both supplied they are used verbatim
\* and the run does not end with InvalidPreset; otherwise both come from the
\* preset named by ratio, and a ratio that names no preset ends the run
\* with InvalidPreset.
C8_DimensionResolution ==
    ActionRan =>
        IF Supplied(argv.width) /\ Supplied(argv.height)
        THEN /\ width = argv.width
             /\ height = argv.height
             /\ failure # "InvalidPreset"
        ELSE IF options.ratio.str \in DOMAIN ReadmePresets
        THEN /\ width = Num(ReadmePresets[options.ratio.str][1])
             /\ height = Num(ReadmePresets[options.ratio.str][2])
        ELSE pc = "exited" /\ failure = "InvalidPreset"

\* s begins with http:// or with https://
HasHttpScheme(s) ==
    \E scheme \in {"http://", "https://"} :
        Len(s) >= Len(scheme) /\ \A i \in 1..Len(scheme) : CharAt(s, i) = CharAt(scheme, i)

\* C9: the URL handed on by the action is the user's URL when that begins
\* with http:// or https://, and https:// followed by the user's URL
\* otherwise; example.com gives https://example.com, http://x.com is kept,
\* and normalizing the result again changes nothing.
C9_NormalizeUrl ==
    ActionRan =>
        /\ HasHttpScheme(argv.url) => normalizedUrl = argv.url
        /\ ~HasHttpScheme(argv.url) => normalizedUrl = "https://" \o argv.url
        /\ argv.url = "example.com" => normalizedUrl = "https://example.com"
        /\ argv.url = "http://x.com" => normalizedUrl = "http://x.com"
        /\ normalizeUrl(normalizedUrl) = normalizedUrl

C9_Witness ==
    /\ ActionRan
    /\ argv.url = "example.com"
    /\ normalizedUrl = "https://example.com"

\* The extension of a path: what follows its last ".".
Extension(path) == Drop(path, FindLast(path, ".", Len(path)))

\* C10 as stated: when no output is given, the filename derived for the
\* session ends with an extension that matches the validated format: png
\* for png, jpg or jpeg for jpeg.
C10_ExtensionMatchesFormat ==
    (ActionRan /\ argv.output = Undefined /\ launchCalls > 0) =>
        /\ options.format = Str("png") => Extension(output) = "png"
        /\ options.format = Str("jpeg") => Extension(output) \in {"jpg", "jpeg"}

\* The last segment of a path, and the part of a derived filename that
\* precedes its last "_".
Basename(path) == Drop(path, FindLast(path, "/", Len(path)))
HostSegment(name) == SubSeq(name, 1, FindLast(name, "_", Len(name)) - 1)

\* The action has just finished: it has called screenshotWebsite, or it
\* has ended the process on a validation failure.
AtActionEnd ==
    \/ pc = "launching"
    \/ (pc = "exited" /\ failure \in ValidationFailures)

\* The action has just derived a filename: no output was given and the
\* dimensions resolved.
FilenameDerived == AtActionEnd /\ argv.output = Undefined /\ output # ""

\* The timestamps of the clock readings, as filenames carry them.
ExpectedTimestamps == {"2025-07-07-16-24-30", "2026-11-01-09-05-07"}

\* C11: the host segment of a derived filename is the host of the
\* normalized URL without one leading "www.", and that host unchanged when
\* it has no leading "www."; https://www.example.com gives example.com.
C11_HostSegmentWithoutWww ==
    (FilenameDerived /\ URLHostname(normalizedUrl).ok) =>
        LET host == URLHostname(normalizedUrl).hostname
            seg == HostSegment(Basename(output))
        IN  /\ SubSeq(host, 1, 4) = "www." => "www." \o seg = host
            /\ SubSeq(host, 1, 4) # "www." => seg = host
            /\ argv.url = "https://www.example.com" => seg = "example.com"
            /\ argv.url = "example.com" => seg = "example.com"
            /\ argv.url = "http://x.com" => seg = "x.com"
            /\ argv.url = "WWW.www.a.io" => seg = "www.a.io"

C11_Witness ==
    /\ FilenameDerived
    /\ pc = "launching"
    /\ argv.url = "https://www.example.com"
    /\ HostSegment(Basename(output)) = "example.com"

\* C12: when the normalized URL cannot be parsed and no output is given,
\* the filename the action derives is screenshot_<timestamp>.<extension>,
\* and the run ends before the session only through a validation failure.
C12_FallbackFilename ==
    /\ (FilenameDerived /\ ~URLHostname(normalizedUrl).ok) =>
           \E ts \in ExpectedTimestamps : \E ext \in {"png", "jpg", "jpeg"} :
               Basename(output) = "screenshot_" \o ts \o "." \o ext
    /\ (ActionRan /\ argv.output = Undefined /\ argv.url = "a b"
            /\ launchCalls = 0) =>
           (pc = "exited" /\ failure \in ValidationFailures)

C12_Witness ==
    /\ pc = "launching"
    /\ argv.url = "a b"
    /\ argv.output = Undefined
    /\ Basename(output) = "screenshot_2025-07-07-16-24-30.png"

\* The default output directory as the README names it, under the home
\* directory.
DefaultOutputDirectory == homeDir \o "/Desktop/Website_Screenshots"

\* C13: at the end of the action an explicit absolute output is the output
\* path unchanged, an explicit relative output is the default output
\* directory followed by it, and the path handed to the session begins
\* with "/".
C13_OutputPath ==
    /\ (AtActionEnd /\ output # "" /\ argv.output # Undefined) =>
           IF SubSeq(argv.output.str, 1, 1) = "/"
           THEN output = argv.output.str
           ELSE output = DefaultOutputDirectory \o "/" \o argv.output.str
    /\ launchCalls > 0 => SubSeq(output, 1, 1) = "/"

C13_Witness ==
    /\ pc = "launching"
    /\ argv.output = Str("shot.jpg")
    /\ output = "/home/u/Desktop/Website_Screenshots/shot.jpg"

\* C14 as stated: whenever the saved path and size have been printed, or
\* the process has exited with status 0, a file of nonzero size is at the
\* output path.
C14_SuccessMeansNonEmptyFile ==
    (successPrinted \/ exitCode = 0) => fileSize > 0

\* The position of a control point in the one pass of an invocation.
StepRank(p) ==
    CASE p = "load" -> 0
      [] p = "parse" -> 1
      [] p = "action" -> 2
      [] p = "launching" -> 3
      [] p = "newPage" -> 4
      [] p = "setViewport" -> 5
      [] p = "setUserAgent" -> 6
      [] p = "goto" -> 7
      [] p = "settle" -> 8
      [] p = "screenshot" -> 9
      [] p = "closing" -> 10
      [] p = "sessionDone" -> 11
      [] p = "exited" -> 12

\* Every step has been attempted at most once, and only after the steps
\* before it succeeded; a failed step is followed by no later step.
StepsInOrder ==
    /\ \A calls \in {launchCalls, newPageCalls, gotoCalls, screenshotCalls,
                     closeCalls} : calls \in {0, 1}
    /\ newPageCalls = 1 => (launchCalls = 1 /\ browser # "none")
    /\ viewport.set => newPageCalls = 1
    /\ userAgentSet => viewport.set
    /\ gotoCalls = 1 => userAgentSet
    /\ timerMs >= 0 => gotoCalls = 1
    /\ settled => timerMs >= 0
    /\ screenshotCalls = 1 => (gotoCalls = 1 /\ (timerMs >= 0 => settled))
    /\ successPrinted => (screenshotCalls = 1 /\ fileSize >= 0)
    /\ sessionError = "LaunchFailed" => newPageCalls = 0
    /\ sessionError = "ConfigureFailed" => gotoCalls = 0
    /\ sessionError = "NavigationFailed" =>
           (screenshotCalls = 0 /\ timerMs < 0 /\ ~successPrinted)
    /\ sessionError \in {"CaptureFailed", "PersistFailed"} => ~successPrinted

\* C15: the steps are attempted in order, each at most once and only after
\* the earlier ones succeeded, and every step of a run moves forward in the
\* pass: no control point is entered twice, no call is repeated.
C15_SinglePass ==
    /\ []StepsInOrder
    /\ [][/\ StepRank(pc') > StepRank(pc)
          /\ gotoCalls' \in {gotoCalls, 1}
          /\ screenshotCalls' \in {screenshotCalls, 1}
          /\ launchCalls' \in {launchCalls, 1}]_vars

C15_Witness ==
    /\ pc = "exited"
    /\ exitCode = 0
    /\ launchCalls = 1
    /\ newPageCalls = 1
    /\ gotoCalls = 1
    /\ settled
    /\ screenshotCalls = 1
    /\ closeCalls = 1

\* C16: the browser is asked to launch only while the default output
\* directory exists, after fs.mkdirSync was called if it was missing; a
\* run in which the creation failed has exited with a non-zero status
\* without the browser ever being launched.
C16_DirectoryBeforeLaunch ==
    /\ launchCalls > 0 => dirExists
    /\ ~dirExists => (pc = "load" \/ (pc = "exited" /\ failure = "MkdirFailed"))
    /\ failure = "MkdirFailed" =>
           /\ pc = "exited"
           /\ exitCode # 0
           /\ mkdirCalls = 1
           /\ launchCalls = 0
           /\ browser = "none"

C16_Witness ==
    /\ mkdirCalls = 1
    /\ dirExists
    /\ launchCalls = 1
    /\ browser = "open"

\* C17: once the capture has been requested, a delay greater than 0 has
\* been waited for by a timer of exactly that delay, started after the
\* navigation succeeded, and with a delay of 0 no timer was started; while
\* the timer runs the capture has not been requested.
C17_SettleBeforeCapture ==
    /\ (screenshotCalls = 1 /\ JsGreater(delay, Num(0))) =>
           (settled /\ timerMs = delay.num)
    /\ (screenshotCalls = 1 /\ delay = Num(0)) => (~settled /\ timerMs = -1)
    /\ (screenshotCalls = 1 /\ options.delay = Str("3000")) =>
           (settled /\ timerMs = 3000)
    /\ (screenshotCalls = 1 /\ options.delay = Str("0")) =>
           (~settled /\ timerMs = -1)
    /\ pc = "settle" =>
           /\ gotoCalls = 1
           /\ sessionError = "none"
           /\ screenshotCalls = 0
           /\ ~settled
    /\ timerMs >= 0 => (gotoCalls = 1 /\ timerMs > 0)

C17_Witness ==
    /\ pc = "screenshot"
    /\ options.delay = Str("3000")
    /\ settled
    /\ timerMs = 3000
    /\ screenshotCalls = 1

\* C18: the capture request carries type jpeg and the quality parsed from
\* the option exactly when the format is jpeg; for format png it carries
\* neither, whatever quality was given.
C18_QualityOnlyForJpeg ==
    screenshotCalls = 1 =>
        /\ screenshotOptions.path = output
        /\ options.format = Str("jpeg") =>
               /\ screenshotOptions.type = Str("jpeg")
               /\ \A n \in 1..100 :
                      options.quality.str = NatToString(n) =>
                          screenshotOptions.quality = Num(n)
               /\ screenshotOptions.quality # Undefined
        /\ options.format = Str("png") =>
               /\ screenshotOptions.type = Undefined
               /\ screenshotOptions.quality = Undefined

C18_Witness ==
    /\ screenshotCalls = 1
    /\ options.format = Str("jpeg")
    /\ options.quality = Str("100")
    /\ screenshotOptions.quality = Num(100)
    /\ screenshotOptions.type = Str("jpeg")

\* C19: when browser.close() raises, screenshotWebsite throws the error of
\* close in place of any earlier one, and the invocation exits with a
\* non-zero status and that error, also when the saved path and size were
\* already printed.
C19_CloseFailureNotSwallowed ==
    closeRaised =>
        /\ sessionResult = "thrown"
        /\ sessionError = "CloseFailed"
        /\ pc \in {"sessionDone", "exited"}
        /\ pc = "exited" => (exitCode # 0 /\ failure = "CloseFailed")

C19_Witness ==
    /\ pc = "exited"
    /\ closeRaised
    /\ successPrinted
    /\ failure = "CloseFailed"
    /\ exitCode = 1

=============================================================================
